---- MODULE Spec2Model ----
(***************************************************************************)
(* Model of src/subharmonicon.cpp (second, current variant of the file,    *)
(* lines 230-552): the encoder handler UpdateEncoder, the main loop, the   *)
(* quantizer Quantize, the audio callback's mix and capture-buffer writes  *)
(* and the renderer's lookups and buffer reads.                            *)
(***************************************************************************)
EXTENDS Integers, Sequences, FiniteSets, TLC

\* ---------------------------------------------------------------- constants

kNumSubharmonics == 4
kWaveformBufferSize == 128
kNumScales == 25
kNumNotes == 12
kNumOctaves == 9

\* std::vector<std::vector<float>> scales (1-based here, 0-based in the code).
scales ==
    << <<0, 2, 4, 5, 7, 9, 11>>,
       <<0, 2, 3, 5, 7, 8, 10>>,
       <<0, 2, 5, 7, 9>>,
       <<0, 2, 3, 5, 7, 9, 10>>,
       <<0, 1, 3, 5, 7, 8, 10>>,
       <<0, 2, 4, 6, 7, 9, 11>>,
       <<0, 2, 4, 5, 7, 9, 10>>,
       <<0, 1, 3, 5, 6, 8, 10>>,
       <<0, 2, 4, 6, 8, 10>>,
       <<0, 1, 2, 3, 4, 5, 6, 7, 8, 9, 10, 11>>,
       <<0, 3, 5, 6, 7, 10>>,
       <<0, 2, 3, 5, 7, 8, 11>>,
       <<0, 2, 3, 5, 7, 9, 11>>,
       <<0, 1, 4, 5, 7, 8, 11>>,
       <<0, 1, 4, 5, 7, 8, 10>>,
       <<0, 1, 4, 5, 7, 8, 11>>,
       <<0, 1, 3, 6, 7, 10>>,
       <<0, 1, 4, 5, 7, 9, 11>>,
       <<0, 1, 5, 7, 8, 11>>,
       <<0, 1, 3, 5, 7, 8, 10>>,
       <<0, 1, 4, 5, 7, 9, 11>>,
       <<0, 2, 4, 5, 7, 9, 10, 11>>,
       <<0, 2, 3, 5, 7, 9, 10, 11>>,
       <<0, 2, 4, 5, 8, 9, 11>>,
       <<0, 2, 4, 5, 7, 9, 10>> >>

\* std::array<std::string, kNumScales> scale_names
scale_names ==
    << "Major", "Minor", "Pentatonic", "Dorian", "Phrygian", "Lydian",
       "Mixolydian", "Locrian", "Whole Tone", "Chromatic", "Blues",
       "Harmonic Minor", "Melodic Minor", "Hungarian Minor",
       "Phrygian Dominant", "Double Harmonic", "Enigmatic", "Persian",
       "Japanese", "Neopolitan Minor", "Neopolitan Major", "Bebop Major",
       "Bebop Minor", "Ionian Augmented", "Lydian Dominant" >>

\* std::array<std::string, kNumNotes> note_labels
note_labels ==
    << "C", "C#", "D", "D#", "E", "F", "F#", "G", "G#", "A", "A#", "B" >>

\* ------------------------------------------------------------------- bounds

\* Largest magnitude of the encoder increment accumulated between two polls.
MaxInc == 2

Increments == (0 - MaxInc) .. MaxInc

\* Number of control ticks explored from power-up (SpecUI).
MaxTicks == 6

\* Number of audio frames interleaved with the main loop (Spec).
MaxFrames == 2

\* Number of audio frames explored when the callback runs alone (SpecBuf):
\* more than two laps of the capture buffer.
MaxPushes == 260

\* Longest run of same-sign increments followed (SpecCycle): more than one
\* full cycle of the root note.
MaxRun == 110

\* Resolution of a pitch number: a semitone is PitchUnit units (cents), so the
\* float midi_note of Quantize is held to a hundredth of a semitone.
PitchUnit == 100

\* Number of steps of the pitch control voltage over its range [0, 1].
CvSteps == 36

\* Number of audio frames interleaved with the renderer's loops (SpecDraw):
\* more than one lap of the capture buffer.
MaxDrawFrames == 130

\* Number of control ticks explored from each state of InitTick (SpecTick).
MaxEdgeTicks == 2

\* ---------------------------------------------------------------- variables

VARIABLES
    \* program state (globals of the translation unit)
    menu_active,            \* bool menu_active
    menu_state,             \* MenuState menu_state
    display_mode,           \* DisplayMode display_mode
    last_encoder_pressed,   \* bool last_encoder_pressed
    current_scale_idx,      \* size_t current_scale_idx
    root_note_midi,         \* int root_note_midi
    osc_buffer_l,           \* std::array<float, kWaveformBufferSize>
    osc_buffer_r,           \* std::array<float, kWaveformBufferSize>
    buffer_index,           \* size_t buffer_index
    out,                    \* out[0][i], out[1][i] of the frame last processed
    pc,                     \* position of the main loop
    \* history of the control ticks (not program state)
    tick_in,                \* the encoder signals sampled by the last tick,
                            \* and the pressed level of the tick before it
    tick_pre,               \* the UI state at the start of the last tick
    ticks,                  \* number of control ticks run
    run,                    \* the current run of same-sign increments
    \* the audio input and its history (not program state)
    sig,                    \* which sample stream the generators produce
    pushes,                 \* number of frames processed
    pushed,                 \* the pairs stored, in order
    written,                \* the slots stored to so far
    \* the calls followed one at a time (not program state)
    quant,                  \* the call of Quantize: argument and results
    draw                    \* the renderer's loop: its index and last reads

uiVars == << menu_active, menu_state, display_mode, last_encoder_pressed,
             current_scale_idx, root_note_midi >>
bufVars == << osc_buffer_l, osc_buffer_r, buffer_index, out >>
tickVars == << tick_in, tick_pre, ticks, run >>
audioHist == << sig, pushes, pushed, written >>
callVars == << quant, draw >>
vars == << uiVars, bufVars, pc, tickVars, audioHist, callVars >>

\* ------------------------------------------------- UpdateEncoder, as functions

\* The UI and quantizer globals as one record.
UIState ==
    [ menu_active          |-> menu_active,
      menu_state           |-> menu_state,
      display_mode         |-> display_mode,
      last_encoder_pressed |-> last_encoder_pressed,
      current_scale_idx    |-> current_scale_idx,
      root_note_midi       |-> root_note_midi ]

\* The globals' initial values.
DefaultUI ==
    [ menu_active          |-> FALSE,
      menu_state           |-> "SCALE_SELECTION",
      display_mode         |-> "WAVEFORM",
      last_encoder_pressed |-> FALSE,
      current_scale_idx    |-> 0,
      root_note_midi       |-> 69 ]

\* The rising-edge block without its reset of display_mode.
HandleRisingEdge_NoReset(s, click) ==
    IF click THEN [s EXCEPT !.menu_active = ~@] ELSE s

\* if (patch.encoder.RisingEdge()) { menu_active = !menu_active;
\*     if (!menu_active) display_mode = WAVEFORM; }
HandleRisingEdge(s, click) ==
    IF click
    THEN LET a == ~s.menu_active
         IN  [s EXCEPT !.menu_active = a,
                       !.display_mode = IF ~a THEN "WAVEFORM" ELSE @]
    ELSE s

\* The wrap arithmetic below is done in size_t (the int root_note_midi is
\* converted for the %); every operand is non-negative and every sum is far
\* below the width of size_t, so no step wraps at the type's width and the
\* unsigned % is the mathematical one.

\* The increment without its wrap.
ScaleUp_NoWrap(i) == i + 1

\* current_scale_idx = (current_scale_idx + 1) % kNumScales
ScaleUp(i) == (i + 1) % kNumScales

\* The decrement stopping at 0 instead of wrapping.
ScaleDown_Clamp(i) == IF i = 0 THEN 0 ELSE i - 1

\* current_scale_idx = (current_scale_idx + kNumScales - 1) % kNumScales
ScaleDown(i) == (i + kNumScales - 1) % kNumScales

\* root_note_midi = (root_note_midi + 1) % (kNumNotes * kNumOctaves)
RootUp(r) == (r + 1) % (kNumNotes * kNumOctaves)

\* The decrement stopping at 0 instead of wrapping.
RootDown_Clamp(r) == IF r = 0 THEN 0 ELSE r - 1

\* root_note_midi = (root_note_midi + (kNumNotes * kNumOctaves) - 1)
\*                  % (kNumNotes * kNumOctaves)
RootDown(r) ==
    (r + (kNumNotes * kNumOctaves) - 1) % (kNumNotes * kNumOctaves)

\* The increment part of the menu branch stepping by the increment's value
\* instead of by one.
MenuIncrement_ByAmount(s, inc) ==
    IF s.menu_state = "SCALE_SELECTION"
    THEN [s EXCEPT !.current_scale_idx = (@ + inc) % kNumScales]
    ELSE [s EXCEPT !.root_note_midi = (@ + inc) % (kNumNotes * kNumOctaves)]

\* The increment part of the menu branch.
MenuIncrement(s, inc) ==
    IF inc > 0
    THEN IF s.menu_state = "SCALE_SELECTION"
         THEN [s EXCEPT !.current_scale_idx = ScaleUp(@)]
         ELSE IF s.menu_state = "ROOT_NOTE_SELECTION"
              THEN [s EXCEPT !.root_note_midi = RootUp(@)]
              ELSE s
    ELSE IF inc < 0
         THEN IF s.menu_state = "SCALE_SELECTION"
              THEN [s EXCEPT !.current_scale_idx = ScaleDown(@)]
              ELSE IF s.menu_state = "ROOT_NOTE_SELECTION"
                   THEN [s EXCEPT !.root_note_midi = RootDown(@)]
                   ELSE s
         ELSE s

\* The press part of the menu branch.
MenuPress(s, pressed) ==
    IF pressed /\ ~s.last_encoder_pressed
    THEN [s EXCEPT !.menu_state = IF @ = "SCALE_SELECTION"
                                  THEN "ROOT_NOTE_SELECTION"
                                  ELSE "SCALE_SELECTION",
                   !.last_encoder_pressed = TRUE]
    ELSE IF ~pressed
         THEN [s EXCEPT !.last_encoder_pressed = FALSE]
         ELSE s

\* The non-menu branch with the direction selecting the view.
ViewToggle_Directional(s, inc) ==
    IF inc > 0
    THEN [s EXCEPT !.display_mode = "XY"]
    ELSE IF inc < 0 THEN [s EXCEPT !.display_mode = "WAVEFORM"] ELSE s

\* The non-menu branch.
ViewToggle(s, inc) ==
    IF inc # 0
    THEN [s EXCEPT !.display_mode = IF @ = "WAVEFORM" THEN "XY" ELSE "WAVEFORM"]
    ELSE s

\* The call with the press block of the menu branch ahead of the increment.
UpdateEncoderResult_PressFirst(s, click, inc, pressed) ==
    LET s1 == HandleRisingEdge(s, click)
    IN  IF s1.menu_active
        THEN MenuIncrement(MenuPress(s1, pressed), inc)
        ELSE ViewToggle(s1, inc)

\* One whole call of UpdateEncoder() on state s with the three signals.
UpdateEncoderResult(s, click, inc, pressed) ==
    LET s1 == HandleRisingEdge(s, click)
    IN  IF s1.menu_active
        THEN MenuPress(MenuIncrement(s1, inc), pressed)
        ELSE ViewToggle(s1, inc)

\* Write a record back to the globals.
SetUI(s) ==
    /\ menu_active' = s.menu_active
    /\ menu_state' = s.menu_state
    /\ display_mode' = s.display_mode
    /\ last_encoder_pressed' = s.last_encoder_pressed
    /\ current_scale_idx' = s.current_scale_idx
    /\ root_note_midi' = s.root_note_midi

\* ---------------------------------------------------------------- quantizer
\* Frequencies are integers in millihertz, pitch numbers integers in units of
\* 1/PitchUnit semitone. A pitch number that the code holds as a whole float
\* (root_midi, every candidate) is a multiple of PitchUnit here.

\* 440.0f * powf(2.0f, k / 12.0f) for k = 0 .. 11, in millihertz.
SemitoneMilliHz ==
    << 440000, 466164, 493883, 523251, 554365, 587330,
       622254, 659255, 698456, 739989, 783991, 830609 >>

\* return 440.0f * powf(2.0f, (midi_note - 69) / 12.0f);
MidiToFrequency(midi_note) ==
    LET k == (midi_note - 69) % 12
        q == ((midi_note - 69) - k) \div 12
    IN  IF q >= 0 THEN SemitoneMilliHz[k + 1] * 2 ^ q
                  ELSE SemitoneMilliHz[k + 1] \div 2 ^ (0 - q)

\* MidiToFrequency tabulated over the pitches 0 .. 128.
MidiTable == [n \in 0 .. 128 |-> MidiToFrequency(n)]

\* float midi_note = 12.0f * log2f(freq / 440.0f) + 69.0f;
\* the logarithm is taken exactly at the semitones and linearly between two
\* neighbouring semitones (less than a cent from the true value).
FreqToMidi(freq) ==
    LET n == CHOOSE k \in 0 .. 127 : MidiTable[k] <= freq /\ freq < MidiTable[k + 1]
    IN  PitchUnit * n
          + (PitchUnit * (freq - MidiTable[n])) \div (MidiTable[n + 1] - MidiTable[n])

\* std::abs(a - b)
Dist(a, b) == IF a >= b THEN a - b ELSE b - a

\* float candidate = floorf(midi_note / 12.0f) * 12.0f + note + root_midi;
Candidate(midi_note, note, root_midi) ==
    (midi_note \div (12 * PitchUnit)) * (12 * PitchUnit) + PitchUnit * note + root_midi

\* for (auto note : scales[current_scale_idx]) { ... if (std::abs(midi_note -
\* candidate) < std::abs(midi_note - closest)) closest = candidate; }
\* from the k-th note of the scale on, with closest as it stands.
RECURSIVE QuantizeLoop(_, _, _, _, _)
QuantizeLoop(midi_note, notes, k, root_midi, closest) ==
    IF k > Len(notes)
    THEN closest
    ELSE LET candidate == Candidate(midi_note, notes[k], root_midi)
         IN  QuantizeLoop(midi_note, notes, k + 1, root_midi,
                          IF Dist(midi_note, candidate) < Dist(midi_note, closest)
                          THEN candidate ELSE closest)

\* Quantize up to the end of its loop: closest starts at root_midi.
QuantizeSelect(freq) ==
    LET root_midi == PitchUnit * root_note_midi
    IN  QuantizeLoop(FreqToMidi(freq), scales[current_scale_idx + 1], 1,
                     root_midi, root_midi)

\* std::fmax(0.0f, std::fmin(127.0f, closest))
ClampMidi(closest) ==
    LET lo == IF closest < 127 * PitchUnit THEN closest ELSE 127 * PitchUnit
    IN  IF lo > 0 THEN lo ELSE 0

\* static_cast<int>(closest) of the clamped value: the argument of
\* MidiToFrequency.
QuantizePitch(freq) == ClampMidi(QuantizeSelect(freq)) \div PitchUnit

\* float Quantize(float freq)
Quantize(freq) == MidiToFrequency(QuantizePitch(freq))

\* The arguments Quantize is called with:
\* Quantize(20.0f + pitch_cv * 1980.0f) for pitch_cv over [0, 1] in CvSteps
\* steps, and 300 Hz.
Frequencies ==
    {20000 + (k * 1980000) \div CvSteps : k \in 0 .. CvSteps} \cup {300000}

\* No call made yet.
NoCall == [stage |-> 0, freq |-> 0, select |-> 0, pitch |-> 0, result |-> 0,
           again |-> 0]

\* float base_freq = Quantize(20.0f + pitch_cv * 1980.0f); the call's
\* argument, the pitch selected before the clamp, the pitch handed to
\* MidiToFrequency and the frequency returned are recorded.
QuantizeCall ==
    /\ quant.stage = 0
    /\ quant' = [quant EXCEPT !.stage = 1,
                              !.select = QuantizeSelect(quant.freq),
                              !.pitch = QuantizePitch(quant.freq),
                              !.result = Quantize(quant.freq)]
    /\ UNCHANGED << uiVars, bufVars, pc, tickVars, audioHist, draw >>

\* Quantize called on the frequency it returned.
QuantizeAgain ==
    /\ quant.stage = 1
    /\ quant' = [quant EXCEPT !.stage = 2, !.again = QuantizePitch(quant.result)]
    /\ UNCHANGED << uiVars, bufVars, pc, tickVars, audioHist, draw >>

\* ------------------------------------------------------------ audio callback

\* The sample streams the four generators are driven through. The generator
\* (daisysp::Oscillator) is an external primitive; a stream fixes what its
\* Process() returns at each frame. Samples are fixed-point and even, so that
\* the mixer's * 0.5f is exact, as it is in binary floating point.
Signals == {"silence", "ramp", "triple", "lap"}

\* float sig = subharmonics[j].Process(), at frame n (0-based) of stream s.
OscProcess(s, j, n) ==
    CASE s = "silence" -> 0
      [] s = "ramp"    -> IF j % 2 = 0 THEN 2 * (j + 1) * (n + 1)
                                       ELSE 0 - 2 * (j + 1) * (n + 1)
      [] s = "triple"  -> 2 * ((n + j) % 3) - 2
      [] s = "lap"     -> IF j = 0 THEN 2 * (n % kWaveformBufferSize)
                          ELSE IF j = 1 THEN 2 * ((n + 1) % kWaveformBufferSize)
                          ELSE 0

\* The inner loop over j: sig added to mix_l when j % 2 == 0, else to mix_r.
\* MixSum(s, n, k, parity) is the channel's sum after generators 0..k-1.
RECURSIVE MixSum(_, _, _, _)
MixSum(s, n, k, parity) ==
    IF k = 0
    THEN 0
    ELSE MixSum(s, n, k - 1, parity)
         + (IF (k - 1) % 2 = parity THEN OscProcess(s, k - 1, n) ELSE 0)

\* The sums left unscaled.
Attenuate_None(x) == x

\* mix_l *= 0.5f; mix_r *= 0.5f;
Attenuate(x) == x \div 2

MixL(s, n) == Attenuate(MixSum(s, n, kNumSubharmonics, 0))
MixR(s, n) == Attenuate(MixSum(s, n, kNumSubharmonics, 1))

\* The store made one slot after the cursor.
StoreSample_Off(buf, i, v) == [buf EXCEPT ![(i + 1) % kWaveformBufferSize] = v]

\* osc_buffer_x[buffer_index] = mix_x
StoreSample(buf, i, v) == [buf EXCEPT ![i] = v]

\* The advance without its wrap.
NextBufferIndex_NoWrap(i) == i + 1

\* No advance at all.
NextBufferIndex_Stuck(i) == i

\* buffer_index = (buffer_index + 1) % kWaveformBufferSize
NextBufferIndex(i) == (i + 1) % kWaveformBufferSize

\* The frame of a callback that also runs the encoder handler, as the first
\* variant of the file does (lines 178-181: AudioCallback calls
\* UpdateEncoder()).
AudioFrame_WithEncoder(limit) ==
    /\ pushes < limit
    /\ \E click \in BOOLEAN, inc \in Increments, pressed \in BOOLEAN :
           SetUI(UpdateEncoderResult(UIState, click, inc, pressed))
    /\ LET l == MixL(sig, pushes)
           r == MixR(sig, pushes)
       IN  /\ osc_buffer_l' = StoreSample(osc_buffer_l, buffer_index, l)
           /\ osc_buffer_r' = StoreSample(osc_buffer_r, buffer_index, r)
           /\ buffer_index' = NextBufferIndex(buffer_index)
           /\ out' = << l, r >>
           /\ pushed' = Append(pushed, << l, r >>)
    /\ pushes' = pushes + 1
    /\ written' = written \cup {buffer_index}
    /\ UNCHANGED << pc, tickVars, sig, callVars >>

\* One iteration of AudioCallback's loop over the frames of a block, while
\* fewer than limit frames have been processed.
AudioFrame(limit) ==
    /\ pushes < limit
    /\ LET l == MixL(sig, pushes)
           r == MixR(sig, pushes)
       IN  /\ osc_buffer_l' = StoreSample(osc_buffer_l, buffer_index, l)
           /\ osc_buffer_r' = StoreSample(osc_buffer_r, buffer_index, r)
           /\ buffer_index' = NextBufferIndex(buffer_index)
           /\ out' = << l, r >>
           /\ pushed' = Append(pushed, << l, r >>)
    /\ pushes' = pushes + 1
    /\ written' = written \cup {buffer_index}
    /\ UNCHANGED << uiVars, pc, tickVars, sig, callVars >>

\* The capture buffer as the renderer reads it: the pair held by each slot.
Snapshot ==
    [i \in 0 .. kWaveformBufferSize - 1 |-> << osc_buffer_l[i], osc_buffer_r[i] >>]

\* ------------------------------------------------------------ control ticks

\* The renderer outside its loop, nothing read.
NoDraw == [i |-> 0, k |-> 0, read |-> << >>]

\* Before the first tick: no signal, the button up.
NoTick == [click |-> FALSE, inc |-> 0, pressed |-> FALSE, was_pressed |-> FALSE]
NoRun == [page |-> "SCALE_SELECTION", dir |-> 1, start |-> 0, len |-> 0]

\* One call of UpdateEncoder() run to completion with the three signals the
\* encoder driver returns to it.
UpdateEncoder(click, inc, pressed) ==
    /\ SetUI(UpdateEncoderResult(UIState, click, inc, pressed))
    /\ tick_in' = [click |-> click, inc |-> inc, pressed |-> pressed,
                   was_pressed |-> tick_in.pressed]
    /\ tick_pre' = UIState

\* A control tick with any signals.
ControlTick ==
    /\ ticks < MaxTicks
    /\ \E click \in BOOLEAN, inc \in Increments, pressed \in BOOLEAN :
           UpdateEncoder(click, inc, pressed)
    /\ ticks' = ticks + 1
    /\ UNCHANGED << bufVars, pc, run, audioHist, callVars >>

\* A control tick with any signals, of the few followed from a chosen state.
EdgeTick ==
    /\ ticks < MaxEdgeTicks
    /\ \E click \in BOOLEAN, inc \in Increments, pressed \in BOOLEAN :
           UpdateEncoder(click, inc, pressed)
    /\ ticks' = ticks + 1
    /\ UNCHANGED << bufVars, pc, run, audioHist, callVars >>

\* A control tick of a run: an increment of the run's sign, no click, no press.
RunTick ==
    /\ run.len < MaxRun
    /\ \E inc \in Increments :
           /\ inc * run.dir > 0
           /\ UpdateEncoder(FALSE, inc, FALSE)
    /\ run' = [run EXCEPT !.len = @ + 1]
    /\ UNCHANGED << bufVars, pc, ticks, audioHist, callVars >>

\* ------------------------------------------------ the main loop, step by step

\* UpdateEncoder() up to and including the rising-edge block.
EncoderEdgeStep ==
    /\ pc = "edge"
    /\ \E click \in BOOLEAN : SetUI(HandleRisingEdge(UIState, click))
    /\ pc' = "increment"
    /\ UNCHANGED << bufVars, tickVars, audioHist, callVars >>

\* int encoder_increment = patch.encoder.Increment(); and its use in the
\* branch taken.
EncoderIncrementStep ==
    /\ pc = "increment"
    /\ \E inc \in Increments :
           IF menu_active
           THEN SetUI(MenuIncrement(UIState, inc)) /\ pc' = "press"
           ELSE SetUI(ViewToggle(UIState, inc)) /\ pc' = "display"
    /\ UNCHANGED << bufVars, tickVars, audioHist, callVars >>

\* The press block of the menu branch.
EncoderPressStep ==
    /\ pc = "press"
    /\ \E pressed \in BOOLEAN : SetUI(MenuPress(UIState, pressed))
    /\ pc' = "display"
    /\ UNCHANGED << bufVars, tickVars, audioHist, callVars >>

\* What UpdateDisplay() looks up to draw the current state.
DisplayProgram ==
    IF menu_active
    THEN IF menu_state = "SCALE_SELECTION"
         THEN << "Scale: ", scale_names[current_scale_idx + 1] >>
         ELSE IF menu_state = "ROOT_NOTE_SELECTION"
              THEN << "Root: ", note_labels[(root_note_midi % kNumNotes) + 1],
                      root_note_midi \div kNumNotes >>
              ELSE << >>
    ELSE << display_mode >>

\* UpdateDisplay(): the renderer writes no global.
UpdateDisplay ==
    /\ pc = "display"
    /\ pc' = "edge"
    /\ UNCHANGED << uiVars, bufVars, tickVars, audioHist, callVars >>

\* ------------------------------------------- UpdateDisplay(), read by read

\* What a read of buf[i] can return: the slot's content, or anything at all
\* when i is outside the array (the code indexes std::array unchecked).
ReadSlot(buf, i) ==
    IF i \in DOMAIN buf THEN {buf[i]} ELSE {0 - 1, 0, 1}

\* The loop condition with the array's length included.
LoopContinues_Inclusive(i) == i <= kWaveformBufferSize

\* i < kWaveformBufferSize
LoopContinues(i) == i < kWaveformBufferSize

\* UpdateDisplay() up to its loop: the menu text reads no buffer; the
\* waveform loop starts at i = 1, the XY loop at i = 0.
DisplayBegin ==
    /\ pc = "display"
    /\ IF menu_active
       THEN pc' = "edge" /\ draw' = NoDraw
       ELSE /\ pc' = "draw"
            /\ draw' = [i |-> IF display_mode = "WAVEFORM" THEN 1 ELSE 0,
                        k |-> 0, read |-> << >>]
    /\ UNCHANGED << uiVars, bufVars, tickVars, audioHist, quant >>

\* One read of a capture buffer by the loop body. WAVEFORM reads
\* osc_buffer_l[i - 1], then osc_buffer_l[i]; XY reads osc_buffer_l[i], then
\* osc_buffer_r[i]. The second read of an iteration is followed by i++.
\* A read is one aligned 32-bit load, so a frame of the audio callback comes
\* before it or after it.
DisplayRead ==
    /\ pc = "draw"
    /\ LoopContinues(draw.i)
    /\ LET chan == IF display_mode = "XY" /\ draw.k = 1 THEN "r" ELSE "l"
           idx == IF display_mode = "WAVEFORM" /\ draw.k = 0
                  THEN draw.i - 1 ELSE draw.i
           buf == IF chan = "l" THEN osc_buffer_l ELSE osc_buffer_r
       IN  \E v \in ReadSlot(buf, idx) :
              draw' = [i |-> IF draw.k = 1 THEN draw.i + 1 ELSE draw.i,
                       k |-> 1 - draw.k,
                       read |-> << chan, idx, v >>]
    /\ UNCHANGED << uiVars, bufVars, pc, tickVars, audioHist, quant >>

\* The loop's exit and patch.display.Update().
DisplayEnd ==
    /\ pc = "draw"
    /\ ~LoopContinues(draw.i)
    /\ pc' = "edge"
    /\ draw' = NoDraw
    /\ UNCHANGED << uiVars, bufVars, tickVars, audioHist, quant >>

\* UpdateEncoder() with the encoder at rest: no click, no increment, the
\* button up.
EncoderAtRest ==
    /\ pc = "edge"
    /\ SetUI(UpdateEncoderResult(UIState, FALSE, 0, FALSE))
    /\ pc' = "display"
    /\ UNCHANGED << bufVars, tickVars, audioHist, callVars >>

\* ----------------------------------------------------------- specifications

\* The globals hold their initializers.
InitGlobals ==
    /\ menu_active = DefaultUI.menu_active
    /\ menu_state = DefaultUI.menu_state
    /\ display_mode = DefaultUI.display_mode
    /\ last_encoder_pressed = DefaultUI.last_encoder_pressed
    /\ current_scale_idx = DefaultUI.current_scale_idx
    /\ root_note_midi = DefaultUI.root_note_midi

InitBuffers ==
    /\ osc_buffer_l = [i \in 0 .. kWaveformBufferSize - 1 |-> 0]
    /\ osc_buffer_r = [i \in 0 .. kWaveformBufferSize - 1 |-> 0]
    /\ buffer_index = 0
    /\ out = << >>
    /\ pushes = 0
    /\ pushed = << >>
    /\ written = {}

\* No call of Quantize followed, the renderer outside its loop.
InitCalls ==
    /\ quant = NoCall
    /\ draw = NoDraw

InitHistory ==
    /\ pc = "edge"
    /\ tick_in = NoTick
    /\ tick_pre = DefaultUI
    /\ ticks = 0
    /\ run = NoRun

\* The whole program from power-up: the main loop step by step, interleaved
\* with audio frames.
Init ==
    /\ InitGlobals
    /\ InitBuffers
    /\ InitHistory
    /\ InitCalls
    /\ sig = "ramp"

Next ==
    \/ EncoderEdgeStep
    \/ EncoderIncrementStep
    \/ EncoderPressStep
    \/ UpdateDisplay
    \/ AudioFrame(MaxFrames)

Spec == Init /\ [][Next]_vars

\* The control ticks alone, from power-up, each tick atomic.
NextUI == ControlTick

SpecUI == Init /\ [][NextUI]_vars

\* The audio callback alone, from power-up, on each sample stream.
InitBuf ==
    /\ InitGlobals
    /\ InitBuffers
    /\ InitHistory
    /\ InitCalls
    /\ sig \in Signals

NextBuf == AudioFrame(MaxPushes)

SpecBuf == InitBuf /\ [][NextBuf]_vars

\* A run of same-sign increments on one menu page, from every value of the
\* page's selection: the menu is open on the page, the other globals at their
\* initializers.
InitCycle ==
    /\ \E page \in {"SCALE_SELECTION", "ROOT_NOTE_SELECTION"}, dir \in {1, 0 - 1} :
         \E start \in 0 .. (IF page = "SCALE_SELECTION"
                            THEN kNumScales
                            ELSE kNumNotes * kNumOctaves) - 1 :
            /\ menu_active = TRUE
            /\ menu_state = page
            /\ display_mode = DefaultUI.display_mode
            /\ last_encoder_pressed = DefaultUI.last_encoder_pressed
            /\ current_scale_idx = IF page = "SCALE_SELECTION"
                                   THEN start ELSE DefaultUI.current_scale_idx
            /\ root_note_midi = IF page = "ROOT_NOTE_SELECTION"
                                THEN start ELSE DefaultUI.root_note_midi
            /\ run = [page |-> page, dir |-> dir, start |-> start, len |-> 0]
            /\ tick_pre = UIState
    /\ InitBuffers
    /\ pc = "edge"
    /\ tick_in = NoTick
    /\ ticks = 0
    /\ InitCalls
    /\ sig = "ramp"

NextCycle == RunTick

SpecCycle == InitCycle /\ [][NextCycle]_vars

\* Quantize called once, and once more on its result, for every scale and
\* root the menu can select and every argument; the other globals at their
\* initializers.
InitQuant ==
    /\ menu_active = DefaultUI.menu_active
    /\ menu_state = DefaultUI.menu_state
    /\ display_mode = DefaultUI.display_mode
    /\ last_encoder_pressed = DefaultUI.last_encoder_pressed
    /\ current_scale_idx \in 0 .. kNumScales - 1
    /\ root_note_midi \in 0 .. kNumNotes * kNumOctaves - 1
    /\ InitBuffers
    /\ InitHistory
    /\ \E f \in Frequencies : quant = [NoCall EXCEPT !.freq = f]
    /\ draw = NoDraw
    /\ sig = "ramp"

NextQuant == QuantizeCall \/ QuantizeAgain

SpecQuant == InitQuant /\ [][NextQuant]_vars

\* The main loop redrawing with the encoder at rest, read by read,
\* interleaved with audio frames; on the menu and on either view.
InitDraw ==
    /\ menu_active \in BOOLEAN
    /\ menu_state = DefaultUI.menu_state
    /\ display_mode \in {"WAVEFORM", "XY"}
    /\ last_encoder_pressed = DefaultUI.last_encoder_pressed
    /\ current_scale_idx = DefaultUI.current_scale_idx
    /\ root_note_midi = DefaultUI.root_note_midi
    /\ InitBuffers
    /\ InitHistory
    /\ InitCalls
    /\ sig = "ramp"

NextDraw ==
    \/ EncoderAtRest
    \/ DisplayBegin
    \/ DisplayRead
    \/ DisplayEnd
    \/ AudioFrame(MaxDrawFrames)

SpecDraw == InitDraw /\ [][NextDraw]_vars

\* A few control ticks with any signals from every combination of the menu
\* flag, the page, the view and the last-pressed flag, with each selection at
\* the bottom, next to the bottom, or at the top of its range, and the root
\* note also at its initializer.
InitTick ==
    /\ menu_active \in BOOLEAN
    /\ menu_state \in {"SCALE_SELECTION", "ROOT_NOTE_SELECTION"}
    /\ display_mode \in {"WAVEFORM", "XY"}
    /\ last_encoder_pressed \in BOOLEAN
    /\ current_scale_idx \in {0, 1, kNumScales - 1}
    /\ root_note_midi \in {0, 1, DefaultUI.root_note_midi, kNumNotes * kNumOctaves - 1}
    /\ InitBuffers
    /\ pc = "edge"
    /\ tick_in = NoTick
    /\ tick_pre = UIState
    /\ ticks = 0
    /\ run = NoRun
    /\ InitCalls
    /\ sig = "ramp"

NextTick == EdgeTick

SpecTick == InitTick /\ [][NextTick]_vars

\* ------------------------------------------------------------------- claims

C2_LeavingMenuForcesWaveform ==
    (ticks > 0 /\ tick_in.click /\ tick_pre.menu_active)
        => (~menu_active /\ display_mode = "WAVEFORM")

\* C3: with the menu open on the root page and no click or press in between,
\* 108 consecutive ticks with a positive increment return root_note_midi to
\* the value it started from, and so do 108 ticks with a negative increment,
\* from every starting value in 0..107.
C3_RootFullCycle ==
    (run.page = "ROOT_NOTE_SELECTION" /\ run.len = 108)
        => root_note_midi = run.start

\* C3 witness: a run of 108 decrements that started at 0 (so it wrapped at its
\* first tick) is back at 0.
C3_Witness ==
    /\ run.page = "ROOT_NOTE_SELECTION" /\ run.dir = 0 - 1
    /\ run.start = 0 /\ run.len = 108
    /\ menu_active /\ menu_state = "ROOT_NOTE_SELECTION"
    /\ root_note_midi = 0

\* C4: with the menu open on the scale page and no click or press in between,
\* 25 consecutive ticks with an increment of one sign return current_scale_idx
\* to the value it started from, from every starting value in 0..24, and no
\* shorter non-empty run of same-sign increments does.
C4_ScaleFullCycle ==
    run.page = "SCALE_SELECTION" =>
        /\ run.len = 25 => current_scale_idx = run.start
        /\ (0 < run.len /\ run.len < 25) => current_scale_idx # run.start

\* C4 witness: a run of 25 increments that started at 24 (so it wrapped at its
\* first tick) is back at 24.
C4_Witness ==
    /\ run.page = "SCALE_SELECTION" /\ run.dir = 1
    /\ run.start = 24 /\ run.len = 25
    /\ menu_active /\ menu_state = "SCALE_SELECTION"
    /\ current_scale_idx = 24

\* C5: at every point of the main loop, between any two of UpdateEncoder's
\* stores and with audio frames interleaved anywhere, current_scale_idx is in
\* 0..24 and root_note_midi in 0..107, so scales[current_scale_idx] (Quantize),
\* scale_names[current_scale_idx] and note_labels[root_note_midi % 12]
\* (UpdateDisplay) are lookups inside their tables.
C5_IndicesInBounds ==
    /\ current_scale_idx \in 0 .. 24
    /\ root_note_midi \in 0 .. 107
    /\ current_scale_idx + 1 \in DOMAIN scales
    /\ current_scale_idx + 1 \in DOMAIN scale_names
    /\ (root_note_midi % kNumNotes) + 1 \in DOMAIN note_labels

\* C5 witness: in the middle of UpdateEncoder, after audio frames have run,
\* the scale index has wrapped down to its last value and the root note has
\* wrapped up to 0.
C5_Witness ==
    /\ pc = "press"
    /\ pushes > 0
    /\ current_scale_idx = 24
    /\ root_note_midi = 0

\* C6: in every control tick that runs the menu branch (menu_active is true
\* when the press is handled), a press edge - the pressed level true in this
\* tick and false in the previous one - toggles menu_state between
\* SCALE_SELECTION and ROOT_NOTE_SELECTION, and a button that has stayed
\* pressed since the previous tick does not toggle it.
C6_PressEdgeTogglesPage ==
    (ticks > 0 /\ menu_active) =>
        /\ (tick_in.pressed /\ ~tick_in.was_pressed)
               => menu_state # tick_pre.menu_state
        /\ (tick_in.pressed /\ tick_in.was_pressed)
               => menu_state = tick_pre.menu_state

\* C7: in a control tick with the menu closed (menu_active false at its start,
\* no click in it), any nonzero increment, of either sign and any magnitude,
\* switches display_mode to the other of WAVEFORM and XY, and a zero increment
\* leaves it unchanged; so the second of two consecutive such ticks with
\* nonzero increments restores the display_mode the first one started from.
C7_ViewToggle ==
    [][ (~menu_active /\ ~tick_in'.click) =>
          /\ tick_in'.inc # 0 =>
                 /\ display_mode' # display_mode
                 /\ display_mode' \in {"WAVEFORM", "XY"}
          /\ tick_in'.inc = 0 => display_mode' = display_mode
          /\ ( /\ ticks > 0
               /\ ~tick_pre.menu_active /\ ~tick_in.click
               /\ tick_in.inc # 0 /\ tick_in'.inc # 0 )
                 => display_mode' = tick_pre.display_mode
      ]_vars

\* C7 witness: the second of two menu-closed ticks, with an increment of -2,
\* has switched XY back to the WAVEFORM the first tick started from.
C7_Witness ==
    /\ ticks = 2
    /\ ~tick_pre.menu_active /\ ~tick_in.click /\ tick_in.inc = 0 - 2
    /\ tick_pre.display_mode = "XY"
    /\ ~menu_active /\ display_mode = "WAVEFORM"

\* C8: the write cursor starts at 0, is in 0..127 in every reachable state and
\* equals (number of pushes) mod 128; each push stores its left and its right
\* value at the slot the cursor points to, changes no other slot, and then
\* advances the cursor by exactly 1 modulo 128.
C8_CursorNextSlot ==
    /\ [](buffer_index \in 0 .. 127 /\ buffer_index = pushes % 128)
    /\ [][ /\ pushes' = pushes + 1
           /\ osc_buffer_l' =
                  [osc_buffer_l EXCEPT ![buffer_index] = pushed'[pushes'][1]]
           /\ osc_buffer_r' =
                  [osc_buffer_r EXCEPT ![buffer_index] = pushed'[pushes'][2]]
           /\ buffer_index' = (buffer_index + 1) % 128
       ]_vars

\* C8 witness: after 129 pushes the cursor has wrapped once and points to
\* slot 1, every slot having been stored to.
C8_Witness ==
    /\ pushes = 129
    /\ buffer_index = 1
    /\ written = 0 .. 127

\* The 1-based sequence numbers of the pushes that went to slot i.
PushesToSlot(i) == {k \in 1 .. pushes : (k - 1) % 128 = i}

SetMax(S) == CHOOSE x \in S : \A y \in S : y <= x

\* C9: after n pushes, slot i of the left and right buffers holds the left and
\* right value of the latest push whose 0-based sequence number is congruent
\* to i modulo 128, or the initial zeros when there is no such push; after 128
\* pushes or more every slot has been stored to, and the buffer holds exactly
\* the last 128 pushed pairs.
C9_MostRecentSamples ==
    /\ \A i \in 0 .. 127 :
           IF PushesToSlot(i) = {}
           THEN Snapshot[i] = << 0, 0 >> /\ i \notin written
           ELSE Snapshot[i] = pushed[SetMax(PushesToSlot(i))] /\ i \in written
    /\ pushes >= 128 =>
           /\ written = 0 .. 127
           /\ \A m \in 1 .. 128 :
                  Snapshot[(pushes - m) % 128] = pushed[pushes + 1 - m]

\* C9 witness: exactly 128 pushes of the ramp stream, whose samples are all
\* nonzero and all different: no slot holds a zero any more.
C9_Witness ==
    /\ sig = "ramp"
    /\ pushes = 128
    /\ \A i \in 0 .. 127 : osc_buffer_l[i] # 0 /\ osc_buffer_r[i] # 0

\* The number of slots of the snapshot that hold the pair v.
SlotsHolding(v) ==
    Cardinality({i \in 0 .. 127 : Snapshot[i] = v})

\* C10 as stated: after a push of a pair v, v is held by exactly one slot of
\* the snapshot taken before any further push, for every v and every prior
\* buffer content.
C10_PushedValueInOneSlot ==
    pushes > 0 => SlotsHolding(pushed[pushes]) = 1

\* The pairs the other 127 slots retain after the latest push: the 127 pushes
\* before it, and the initial zeros while fewer than 128 pushes were made.
OtherRetained ==
    {pushed[k] : k \in {j \in 1 .. pushes - 1 : j > pushes - 128}}
        \cup (IF pushes < 128 THEN {<< 0, 0 >>} ELSE {})

\* C10 amended: after a push of a pair v, the snapshot taken before any further
\* push holds v at the slot the cursor pointed to at the push; v is held by
\* exactly one slot if and only if it differs from every pair the other 127
\* slots retain.
C10_PushedValueAtCursorSlot ==
    pushes > 0 =>
        LET v == pushed[pushes]
        IN  /\ Snapshot[(pushes - 1) % 128] = v
            /\ (SlotsHolding(v) = 1) <=> (v \notin OtherRetained)

\* C10 witness: in the second lap of the ramp stream the pair just pushed is
\* held by one slot only, the one before the cursor.
C10_Witness ==
    /\ sig = "ramp"
    /\ pushes = 130
    /\ buffer_index = 2
    /\ Snapshot[1] = pushed[130]
    /\ SlotsHolding(pushed[130]) = 1

\* C11: for every argument in [20 Hz, 2000 Hz], every scale of the catalog and
\* every root in 0 .. 107, the frequency Quantize returns has a whole pitch
\* number p, and (p - root) mod 12 is one of the offsets of the scale.
C11_QuantizedPitchInScale ==
    quant.stage >= 1 =>
        LET p == FreqToMidi(quant.result)
            notes == scales[current_scale_idx + 1]
        IN  /\ p % PitchUnit = 0
            /\ \E k \in 1 .. Len(notes) :
                   ((p \div PitchUnit) - root_note_midi) % kNumNotes = notes[k]

\* C12: Quantize is idempotent: called on the frequency it returned, it
\* selects the same pitch again.
C12_QuantizeIdempotent ==
    quant.stage = 2 => quant.again = quant.pitch

\* C13: with scale 0 (Major), root note 69 and the argument 300 Hz, Quantize
\* resolves to pitch 62.
C13_Example300Hz ==
    ( /\ quant.stage >= 1
      /\ quant.freq = 300000
      /\ current_scale_idx = 0
      /\ root_note_midi = 69 ) => quant.pitch = 62

\* C14: the pitch Quantize selects before the clamp is one of the candidates
\* floor(pitch / 12) * 12 + o + root, o an offset of the scale: the one at the
\* least distance from the argument's pitch and, among those at that
\* distance, the one of the lowest offset.
C14_SelectsNearestCandidate ==
    quant.stage >= 1 =>
        LET midi_note == FreqToMidi(quant.freq)
            notes == scales[current_scale_idx + 1]
            cand(k) == Candidate(midi_note, notes[k], PitchUnit * root_note_midi)
        IN  \E k \in 1 .. Len(notes) :
               /\ quant.select = cand(k)
               /\ \A j \in 1 .. Len(notes) :
                      /\ Dist(midi_note, cand(j)) >= Dist(midi_note, cand(k))
                      /\ Dist(midi_note, cand(j)) = Dist(midi_note, cand(k))
                            => notes[j] >= notes[k]

C16_RendererReads ==
    /\ [](draw.read # << >> =>
            LET chan == draw.read[1]
                idx == draw.read[2]
                v == draw.read[3]
            IN  /\ idx \in 0 .. kWaveformBufferSize - 1
                /\ \/ v = 0
                   \/ \E n \in PushesToSlot(idx) :
                          pushed[n][IF chan = "l" THEN 1 ELSE 2] = v)
    /\ [][(pc \in {"display", "draw"} /\ (pc' # pc \/ draw' # draw))
            => UNCHANGED << osc_buffer_l, osc_buffer_r, buffer_index >>]_vars

\* The renderer has read from slot 1 the value of the first lap, and the
\* audio callback has overwritten the slot since.
C16_Witness ==
    /\ pc = "draw"
    /\ draw.read # << >>
    /\ draw.read[2] = 1
    /\ pushes > kWaveformBufferSize + 1
    /\ draw.read[3] = pushed[2][IF draw.read[1] = "l" THEN 1 ELSE 2]
    /\ draw.read[3] # (IF draw.read[1] = "l" THEN osc_buffer_l[1] ELSE osc_buffer_r[1])

\* The sample value that stands for 1.0f: the streams silence, triple and lap
\* stay within it, the stream ramp grows beyond it.
FullScale == 2 * kWaveformBufferSize

\* C17: in every frame, with s_0 .. s_3 the samples of the four generators,
\* the left output is 0.5 * (s_0 + s_2) and the right output 0.5 * (s_1 + s_3),
\* both output channels are written, and the pair stored at the cursor's slot
\* of the capture buffers is the pair written to the output; if every s_j is
\* within [-1, 1], so are both channels.
C17_MixAndCapture ==
    pushes > 0 =>
        LET n == pushes - 1
            s(j) == OscProcess(sig, j, n)
            slot == n % kWaveformBufferSize
        IN  /\ Len(out) = 2
            /\ 2 * out[1] = s(0) + s(2)
            /\ 2 * out[2] = s(1) + s(3)
            /\ << osc_buffer_l[slot], osc_buffer_r[slot] >> = out
            /\ (\A j \in 0 .. 3 : Dist(s(j), 0) <= FullScale)
                  => (Dist(out[1], 0) <= FullScale /\ Dist(out[2], 0) <= FullScale)

\* A frame of the second lap whose samples are within full scale and whose
\* two outputs are not zero.
C17_Witness ==
    /\ sig = "lap"
    /\ pushes > kWaveformBufferSize
    /\ \A j \in 0 .. 3 : Dist(OscProcess(sig, j, pushes - 1), 0) <= FullScale
    /\ out[1] # 0
    /\ out[2] # 0

\* C18: at the end of every control tick, the menu active or not,
\* last_encoder_pressed equals the pressed level sampled in that tick (so at
\* the start of a tick it is the level of the tick before).
C18_LastPressedFollowsLevel ==
    ticks > 0 => last_encoder_pressed = tick_in.pressed

\* One step of a selection over a range of n values, in the direction of inc.
OneStep(v, inc, n) ==
    IF inc > 0 THEN (v + 1) % n ELSE IF inc < 0 THEN (v + n - 1) % n ELSE v

\* C19: frame of a control tick. root_note_midi changes only in a tick that
\* runs the menu branch with the page ROOT_NOTE_SELECTION at its start, and
\* current_scale_idx only in one with the page SCALE_SELECTION; no tick
\* changes both, and the one touched moves by exactly one step in the
\* increment's direction whatever its magnitude. A tick that runs the menu
\* branch leaves display_mode unchanged; a tick that runs the other branch
\* leaves current_scale_idx, root_note_midi and menu_state unchanged.
C19_TickFrame ==
    ticks > 0 =>
        LET menuBranch == menu_active
            onScale == menuBranch /\ tick_pre.menu_state = "SCALE_SELECTION"
            onRoot == menuBranch /\ tick_pre.menu_state = "ROOT_NOTE_SELECTION"
        IN  /\ current_scale_idx =
                  (IF onScale
                   THEN OneStep(tick_pre.current_scale_idx, tick_in.inc, kNumScales)
                   ELSE tick_pre.current_scale_idx)
            /\ root_note_midi =
                  (IF onRoot
                   THEN OneStep(tick_pre.root_note_midi, tick_in.inc,
                                kNumNotes * kNumOctaves)
                   ELSE tick_pre.root_note_midi)
            /\ ~ ( /\ current_scale_idx # tick_pre.current_scale_idx
                   /\ root_note_midi # tick_pre.root_note_midi )
            /\ menuBranch => display_mode = tick_pre.display_mode
            /\ ~menuBranch => menu_state = tick_pre.menu_state

\* A tick with an increment of magnitude above one has wrapped the root note
\* from the top of its range to 0, the scale and the view untouched.
C19_Witness ==
    /\ ticks > 0
    /\ tick_in.inc > 1
    /\ menu_active
    /\ tick_pre.menu_state = "ROOT_NOTE_SELECTION"
    /\ tick_pre.root_note_midi = kNumNotes * kNumOctaves - 1
    /\ root_note_midi = 0
    /\ current_scale_idx = tick_pre.current_scale_idx
    /\ display_mode = "XY"

\* C20: within a tick the click is applied before the increment and the
\* increment before the press. A tick with a click and a nonzero increment
\* that starts with the menu closed opens the menu and steps the selection of
\* the page, display_mode untouched; one that starts with the menu open
\* closes it and hands the increment to the view, the selections untouched.
\* An increment in the tick whose press toggles the page steps the selection
\* of the page shown before the toggle, not of the page shown after it.
C20_ClickIncrementPressOrder ==
    ticks > 0 =>
        LET stepped(page) ==
                /\ current_scale_idx =
                      (IF page = "SCALE_SELECTION"
                       THEN OneStep(tick_pre.current_scale_idx, tick_in.inc, kNumScales)
                       ELSE tick_pre.current_scale_idx)
                /\ root_note_midi =
                      (IF page = "ROOT_NOTE_SELECTION"
                       THEN OneStep(tick_pre.root_note_midi, tick_in.inc,
                                    kNumNotes * kNumOctaves)
                       ELSE tick_pre.root_note_midi)
        IN  /\ (tick_in.click /\ ~tick_pre.menu_active /\ tick_in.inc # 0) =>
                  /\ menu_active
                  /\ display_mode = tick_pre.display_mode
                  /\ stepped(tick_pre.menu_state)
            /\ (tick_in.click /\ tick_pre.menu_active /\ tick_in.inc # 0) =>
                  /\ ~menu_active
                  /\ display_mode = "XY"
                  /\ current_scale_idx = tick_pre.current_scale_idx
                  /\ root_note_midi = tick_pre.root_note_midi
            /\ ( /\ menu_active
                 /\ tick_in.pressed
                 /\ ~tick_pre.last_encoder_pressed
                 /\ tick_in.inc # 0 ) =>
                  /\ menu_state # tick_pre.menu_state
                  /\ stepped(tick_pre.menu_state)

\* One tick with all three signals from the closed menu in XY view: the menu
\* opened, the scale stepped down from 0 to the top, the page toggled to the
\* root note, the view still XY.
C20_Witness ==
    /\ ticks > 0
    /\ tick_in.click
    /\ tick_in.inc < 0
    /\ tick_in.pressed
    /\ ~tick_pre.menu_active
    /\ ~tick_pre.last_encoder_pressed
    /\ tick_pre.menu_state = "SCALE_SELECTION"
    /\ tick_pre.current_scale_idx = 0
    /\ tick_pre.display_mode = "XY"
    /\ menu_active
    /\ current_scale_idx = kNumScales - 1
    /\ menu_state = "ROOT_NOTE_SELECTION"
    /\ display_mode = "XY"

====
